---------------------------- MODULE Spec2Model ----------------------------
(***************************************************************************)
(* LucidIQ backend: an Express server with two POST endpoints,             *)
(* /api/analyze and /api/chat, that sanitize user text, build a prompt,    *)
(* call a completion API once and turn its reply into the HTTP response.   *)
(*                                                                         *)
(* Text is modelled as a sequence of one-character strings, so that the    *)
(* regular-expression steps of the source (character removal, whole-word   *)
(* removal, fence stripping, greedy brace match) and JSON.parse are        *)
(* computed character by character.                                        *)
(***************************************************************************)
EXTENDS Integers, Sequences, FiniteSets, TLC

(***************************************************************************)
(* Characters                                                              *)
(***************************************************************************)
LowerLetters == <<"a","b","c","d","e","f","g","h","i","j","k","l","m",
                  "n","o","p","q","r","s","t","u","v","w","x","y","z">>

UpperLetters == <<"A","B","C","D","E","F","G","H","I","J","K","L","M",
                  "N","O","P","Q","R","S","T","U","V","W","X","Y","Z">>

Digits == {"0","1","2","3","4","5","6","7","8","9"}

Range(f) == {f[i] : i \in DOMAIN f}

\* \w of a JavaScript regular expression without the u flag: [A-Za-z0-9_].
WordChars == Range(LowerLetters) \cup Range(UpperLetters) \cup Digits \cup {"_"}

IsWordChar(c) == c \in WordChars

\* White space as String.prototype.trim and \s see it (the part of it the
\* model's alphabet holds).
IsSpace(c) == c \in {" ", "\n", "\t", "\r"}

\* Case folding of the i flag on ASCII letters.
LowerOf ==
    [c \in Range(UpperLetters) |->
        LowerLetters[CHOOSE i \in DOMAIN UpperLetters : UpperLetters[i] = c]]

ToLower(c) == IF c \in DOMAIN LowerOf THEN LowerOf[c] ELSE c

(***************************************************************************)
(* String helpers (JavaScript String methods)                              *)
(***************************************************************************)
\* Substring0 without the cap.
SubstringUncapped(s, n) == s

\* s.substring(0, n): n below 0 counts as 0, n above the length as the length.
Substring0(s, n) ==
    LET m == IF n < 0 THEN 0 ELSE IF n > Len(s) THEN Len(s) ELSE n
    IN  SubSeq(s, 1, m)

\* s.replace(/[...]/g, ''): delete every character of the class.
RemoveChars(s, class) == SelectSeq(s, LAMBDA c : c \notin class)

RECURSIVE TrimLeft(_)
TrimLeft(s) ==
    IF s = <<>> THEN s
    ELSE IF IsSpace(Head(s)) THEN TrimLeft(Tail(s)) ELSE s

RECURSIVE TrimRight(_)
TrimRight(s) ==
    IF s = <<>> THEN s
    ELSE IF IsSpace(s[Len(s)]) THEN TrimRight(SubSeq(s, 1, Len(s) - 1)) ELSE s

\* trim that leaves the trailing white space.
TrimStartOnly(s) == TrimLeft(s)

\* s.trim()
Trim(s) == TrimRight(TrimLeft(s))

\* TRUE when the literal text w stands in s at position i (1-based).
MatchAt(s, i, w) ==
    /\ i + Len(w) - 1 <= Len(s)
    /\ \A k \in 1..Len(w) : s[i + k - 1] = w[k]

\* The same under the i flag: both sides case-folded.
MatchAtNoCase(s, i, w) ==
    /\ i + Len(w) - 1 <= Len(s)
    /\ \A k \in 1..Len(w) : ToLower(s[i + k - 1]) = ToLower(w[k])

\* \b at the gap before position i of s (i in 1..Len(s)+1): exactly one of
\* the two neighbours is a word character.
WordBoundary(s, i) ==
    LET before == i > 1 /\ IsWordChar(s[i - 1])
        after  == i <= Len(s) /\ IsWordChar(s[i])
    IN  before # after

(***************************************************************************)
(* sanitizeInput                                                           *)
(***************************************************************************)
\* The backquote character (a string of the model cannot hold it literally).
BT == "BACKQUOTE"

\* The character class of the first replace: < > { } [ ] and the backquote.
DangerousChars == {"<", ">", "{", "}", "[", "]", BT}

\* The alternation of the second replace, in source order.
Denylist == <<
    <<"i","g","n","o","r","e">>,
    <<"f","o","r","g","e","t">>,
    <<"d","i","s","r","e","g","a","r","d">>,
    <<"o","v","e","r","r","i","d","e">>,
    <<"i","n","s","t","e","a","d">>,
    <<"p","r","e","t","e","n","d">>,
    <<"i","m","a","g","i","n","e">>,
    <<"r","o","l","e","p","l","a","y">> ,
    <<"j","a","i","l","b","r","e","a","k">> >>

\* Alternative k of \b(...)\b matches at position i.
DenyMatch(s, i, k) ==
    /\ i >= 1
    /\ MatchAtNoCase(s, i, Denylist[k])
    /\ WordBoundary(s, i)
    /\ WordBoundary(s, i + Len(Denylist[k]))

\* Position j lies inside a match. A match is a whole run of word
\* characters (a \b on each side of letters only), so two matches never
\* overlap and the left-to-right scan of the g flag finds every one of them.
InDenyMatch(s, j) ==
    \E k \in DOMAIN Denylist :
        \E i \in (j - Len(Denylist[k]) + 1)..j : DenyMatch(s, i, k)

\* s.replace(/\b(ignore|...)\b/gi, ''): every match is deleted; nothing is
\* put in its place and the result is not scanned again.
RemoveWords(s) ==
    LET at == [j \in DOMAIN s |-> <<j, s[j]>>]
        kept == SelectSeq(at, LAMBDA p : ~InDenyMatch(s, p[1]))
    IN  [n \in DOMAIN kept |-> kept[n][2]]

\* A JavaScript value as the handlers use it: its typeof tag, and for a
\* string its characters. t is "undefined", "null", "string", "number",
\* "boolean", "object" or "array".
\* s is the text String(value) gives; noprim marks an object that has no
\* primitive conversion (String(value) throws TypeError), as the JSON body
\* {"toString": 1} parses to.
JsValue(t, s) == [t |-> t, s |-> s, noprim |-> FALSE]
JsString(s) == JsValue("string", s)
JsNumber(s) == JsValue("number", s)
JsUndefined == JsValue("undefined", <<"u","n","d","e","f","i","n","e","d">>)
JsNull == JsValue("null", <<"n","u","l","l">>)
JsObject == JsValue("object", <<"[","o","b","j","e","c","t"," ","O","b","j","e","c","t","]">>)
JsNoPrimitive == [t |-> "object", s |-> <<>>, noprim |-> TRUE]

\* ToBoolean(value), as in if (value) and !value.
Truthy(v) ==
    CASE v.t \in {"undefined", "null"} -> FALSE
      [] v.t = "string" -> v.s # <<>>
      [] v.t = "number" -> v.s # <<"0">>
      [] v.t = "boolean" -> v.s = <<"t","r","u","e">>
      [] OTHER -> TRUE

\* !input || typeof input !== 'string'
NotAString(input) == input.t # "string" \/ input.s = <<>>

\* The chain with the word removal ahead of the character removal.
sanitizeWordsFirst(s, maxLength) ==
    Trim(RemoveChars(RemoveWords(Substring0(s, maxLength)), DangerousChars))

\* The filter chain of sanitizeInput, on a string: cap, characters, words, trim.
sanitizeChain(s, maxLength) ==
    Trim(RemoveWords(RemoveChars(Substring0(s, maxLength), DangerousChars)))

sanitizeInput(input, maxLength) ==
    IF NotAString(input) THEN <<>> ELSE sanitizeChain(input.s, maxLength)


(***************************************************************************)
(* JSON.parse                                                              *)
(*                                                                         *)
(* A parsed value is a record: k its kind ("object", "array", "string",    *)
(* "number", "true", "false", "null"), s the characters of a string or the *)
(* text of a number, keys and kids the members of an object in insertion   *)
(* order (kids alone the elements of an array).                            *)
(***************************************************************************)
JValue(k, s, keys, kids) == [k |-> k, s |-> s, keys |-> keys, kids |-> kids]

NoValue == JValue("none", <<>>, <<>>, <<>>)

ParseFail == [ok |-> FALSE, v |-> NoValue, next |-> 0]

ParseOk(v, next) == [ok |-> TRUE, v |-> v, next |-> next]

\* The four white space characters of the JSON grammar.
JsonWs == {" ", "\n", "\t", "\r"}

CharAt(s, i) == IF i >= 1 /\ i <= Len(s) THEN s[i] ELSE "EOF"

RECURSIVE SkipWs(_, _)
SkipWs(s, i) == IF CharAt(s, i) \in JsonWs THEN SkipWs(s, i + 1) ELSE i

RECURSIVE SkipDigits(_, _)
SkipDigits(s, i) == IF CharAt(s, i) \in Digits THEN SkipDigits(s, i + 1) ELSE i

\* number: -? (0 | [1-9][0-9]*) (\.[0-9]+)? ([eE][+-]?[0-9]+)?
ParseNumber(s, i) ==
    LET a == IF CharAt(s, i) = "-" THEN i + 1 ELSE i
        b == IF CharAt(s, a) = "0" THEN a + 1 ELSE SkipDigits(s, a)
        c == IF CharAt(s, b) = "." THEN SkipDigits(s, b + 1) ELSE b
        e == IF CharAt(s, c) \in {"e", "E"}
             THEN IF CharAt(s, c + 1) \in {"+", "-"} THEN c + 2 ELSE c + 1
             ELSE c
        d == IF e = c THEN c ELSE SkipDigits(s, e)
    IN  IF b = a \/ (CharAt(s, b) = "." /\ c = b + 1) \/ (e # c /\ d = e)
        THEN ParseFail
        ELSE ParseOk(JValue("number", SubSeq(s, i, d - 1), <<>>, <<>>), d)

\* The one-character escapes of a JSON string (\uXXXX is outside the alphabet).
Unescape(c) ==
    CASE c = "n" -> "\n"
      [] c = "t" -> "\t"
      [] c = "r" -> "\r"
      [] OTHER -> c

\* The characters of a string, from position i (after the opening quote).
RECURSIVE ScanString(_, _, _)
ScanString(s, i, acc) ==
    LET c == CharAt(s, i)
    IN  CASE c = "EOF" -> ParseFail
          [] c = "\"" -> ParseOk(JValue("string", acc, <<>>, <<>>), i + 1)
          [] c \in {"\n", "\t", "\r"} -> ParseFail
          [] c = "\\" ->
                IF CharAt(s, i + 1) \in {"\"", "\\", "/", "n", "t", "r"}
                THEN ScanString(s, i + 2, Append(acc, Unescape(CharAt(s, i + 1))))
                ELSE ParseFail
          [] OTHER -> ScanString(s, i + 1, Append(acc, c))

ParseLiteral(s, i) ==
    CASE MatchAt(s, i, <<"t","r","u","e">>) -> ParseOk(JValue("true", <<>>, <<>>, <<>>), i + 4)
      [] MatchAt(s, i, <<"f","a","l","s","e">>) -> ParseOk(JValue("false", <<>>, <<>>, <<>>), i + 5)
      [] MatchAt(s, i, <<"n","u","l","l">>) -> ParseOk(JValue("null", <<>>, <<>>, <<>>), i + 4)
      [] OTHER -> ParseFail

\* obj[key] = v on the members of an object: a key already present keeps its
\* place and takes the new value.
SetMember(keys, kids, key, v) ==
    IF \E i \in DOMAIN keys : keys[i] = key
    THEN [keys |-> keys,
          kids |-> [i \in DOMAIN kids |-> IF keys[i] = key THEN v ELSE kids[i]]]
    ELSE [keys |-> Append(keys, key), kids |-> Append(kids, v)]

RECURSIVE ParseValue(_, _)
RECURSIVE ParseElements(_, _, _)
RECURSIVE ParseMembers(_, _, _, _)

\* The elements of an array from position i, up to and including the "]".
ParseElements(s, i, acc) ==
    LET r == ParseValue(s, SkipWs(s, i))
        j == SkipWs(s, r.next)
    IN  IF ~r.ok THEN ParseFail
        ELSE CASE CharAt(s, j) = "," -> ParseElements(s, j + 1, Append(acc, r.v))
               [] CharAt(s, j) = "]" ->
                     ParseOk(JValue("array", <<>>, <<>>, Append(acc, r.v)), j + 1)
               [] OTHER -> ParseFail

\* The members of an object from position i, up to and including the "}".
ParseMembers(s, i, keys, kids) ==
    LET a == SkipWs(s, i)
        key == IF CharAt(s, a) = "\"" THEN ScanString(s, a + 1, <<>>) ELSE ParseFail
        b == SkipWs(s, key.next)
        r == IF key.ok /\ CharAt(s, b) = ":"
             THEN ParseValue(s, SkipWs(s, b + 1)) ELSE ParseFail
        j == SkipWs(s, r.next)
        m == SetMember(keys, kids, key.v.s, r.v)
    IN  IF ~r.ok THEN ParseFail
        ELSE CASE CharAt(s, j) = "," -> ParseMembers(s, j + 1, m.keys, m.kids)
               [] CharAt(s, j) = "}" ->
                     ParseOk(JValue("object", <<>>, m.keys, m.kids), j + 1)
               [] OTHER -> ParseFail

\* One JSON value starting at position i (white space already skipped).
ParseValue(s, i) ==
    LET c == CharAt(s, i)
    IN  CASE c = "{" ->
                IF CharAt(s, SkipWs(s, i + 1)) = "}"
                THEN ParseOk(JValue("object", <<>>, <<>>, <<>>), SkipWs(s, i + 1) + 1)
                ELSE ParseMembers(s, i + 1, <<>>, <<>>)
          [] c = "[" ->
                IF CharAt(s, SkipWs(s, i + 1)) = "]"
                THEN ParseOk(JValue("array", <<>>, <<>>, <<>>), SkipWs(s, i + 1) + 1)
                ELSE ParseElements(s, i + 1, <<>>)
          [] c = "\"" -> ScanString(s, i + 1, <<>>)
          [] c = "-" \/ c \in Digits -> ParseNumber(s, i)
          [] OTHER -> ParseLiteral(s, i)

\* JSON.parse(text): ok is FALSE where it throws SyntaxError.
JSONparse(s) ==
    LET r == ParseValue(s, SkipWs(s, 1))
    IN  IF r.ok /\ SkipWs(s, r.next) = Len(s) + 1 THEN r ELSE ParseFail

(***************************************************************************)
(* JSON.stringify, as res.json writes a value                              *)
(***************************************************************************)
\* One character of a string, as JSON.stringify writes it between quotes.
EscapeChar(c) ==
    CASE c = "\"" -> <<"\\", "\"">>
      [] c = "\\" -> <<"\\", "\\">>
      [] c = "\n" -> <<"\\", "n">>
      [] c = "\t" -> <<"\\", "t">>
      [] c = "\r" -> <<"\\", "r">>
      [] OTHER -> <<c>>

RECURSIVE Quote(_)
Quote(s) == IF s = <<>> THEN <<>> ELSE EscapeChar(Head(s)) \o Quote(Tail(s))

\* A number as JSON.stringify writes it: the shortest decimal form. The
\* numbers of the model are integer literals, which it writes as they stand,
\* but for minus zero, written 0.
NumberText(s) == IF s = <<"-", "0">> THEN <<"0">> ELSE s

RECURSIVE Stringify(_)
RECURSIVE JoinMembers(_, _, _)
RECURSIVE JoinElements(_, _)

\* "key":value of members i.. of an object, comma-separated.
JoinMembers(keys, kids, i) ==
    IF i > Len(keys) THEN <<>>
    ELSE (IF i > 1 THEN <<",">> ELSE <<>>)
         \o <<"\"">> \o Quote(keys[i]) \o <<"\"", ":">> \o Stringify(kids[i])
         \o JoinMembers(keys, kids, i + 1)

JoinElements(kids, i) ==
    IF i > Len(kids) THEN <<>>
    ELSE (IF i > 1 THEN <<",">> ELSE <<>>) \o Stringify(kids[i])
         \o JoinElements(kids, i + 1)

\* JSON.stringify(value), without indentation.
Stringify(v) ==
    CASE v.k = "object" -> <<"{">> \o JoinMembers(v.keys, v.kids, 1) \o <<"}">>
      [] v.k = "array" -> <<"[">> \o JoinElements(v.kids, 1) \o <<"]">>
      [] v.k = "string" -> <<"\"">> \o Quote(v.s) \o <<"\"">>
      [] v.k = "number" -> NumberText(v.s)
      [] v.k = "true" -> <<"t","r","u","e">>
      [] v.k = "false" -> <<"f","a","l","s","e">>
      [] OTHER -> <<"n","u","l","l">>

(***************************************************************************)
(* The two-phase extraction of /api/analyze                                *)
(***************************************************************************)
FenceJson == <<BT, BT, BT, "j", "s", "o", "n">>

Fence == <<BT, BT, BT>>

\* s.replace(/<lit>\n?/g, ''): every occurrence of lit, with the line feed
\* that follows it when there is one, is deleted in one left-to-right pass.
RECURSIVE RemoveMarkerFrom(_, _, _)
RemoveMarkerFrom(s, i, lit) ==
    IF i > Len(s) THEN <<>>
    ELSE IF MatchAt(s, i, lit)
         THEN RemoveMarkerFrom(s,
                  IF CharAt(s, i + Len(lit)) = "\n" THEN i + Len(lit) + 1 ELSE i + Len(lit),
                  lit)
         ELSE <<s[i]>> \o RemoveMarkerFrom(s, i + 1, lit)

\* content.replace(/```json\n?/g, '').replace(/```\n?/g, '').trim()
StripFences(content) ==
    Trim(RemoveMarkerFrom(RemoveMarkerFrom(content, 1, FenceJson), 1, Fence))

\* The end of the match of [\s\S]*\} tried from position i: greedy, so the
\* last "}" at or after i; 0 when there is none.
RECURSIVE LastCloseFrom(_, _)
LastCloseFrom(s, i) ==
    IF i > Len(s) THEN 0
    ELSE LET later == LastCloseFrom(s, i + 1)
         IN  IF later # 0 THEN later ELSE IF s[i] = "}" THEN i ELSE 0

\* content.match(/\{[\s\S]*\}/): the regular expression is tried at each
\* position from the left; found is FALSE for a null result.
RECURSIVE BraceMatchFrom(_, _)
BraceMatchFrom(s, i) ==
    IF i > Len(s) THEN [found |-> FALSE, text |-> <<>>]
    ELSE IF s[i] = "{" /\ LastCloseFrom(s, i + 1) # 0
         THEN [found |-> TRUE, text |-> SubSeq(s, i, LastCloseFrom(s, i + 1))]
         ELSE BraceMatchFrom(s, i + 1)

\* BraceMatch with a lazy quantifier: from the first "{" to the first "}"
\* after it.
BraceMatchLazy(content) ==
    IF \E i \in DOMAIN content : content[i] = "{" /\ \E j \in (i + 1)..Len(content) : content[j] = "}"
    THEN LET i == CHOOSE a \in DOMAIN content :
                     /\ content[a] = "{"
                     /\ \E j \in (a + 1)..Len(content) : content[j] = "}"
                     /\ \A b \in 1..(a - 1) :
                           ~(content[b] = "{" /\ \E j \in (b + 1)..Len(content) : content[j] = "}")
             k == CHOOSE j \in (i + 1)..Len(content) :
                     content[j] = "}" /\ \A m \in (i + 1)..(j - 1) : content[m] # "}"
         IN  [found |-> TRUE, text |-> SubSeq(content, i, k)]
    ELSE [found |-> FALSE, text |-> <<>>]

BraceMatch(content) == BraceMatchFrom(content, 1)


(***************************************************************************)
(* Responses                                                               *)
(***************************************************************************)
NoDetail == [present |-> FALSE, text |-> <<>>]

Detail(text) == [present |-> TRUE, text |-> text]

\* res.status(status).json({ error, <details or message> })
ErrorResponse(status, error, detail) ==
    [status |-> status, json |-> TRUE, error |-> error, detail |-> detail,
     body |-> NoValue, via |-> 0]

\* res.json(value): status 200, the value serialised as the body. via is the
\* extraction phase that produced it (0 on /api/chat).
OkResponse(body, via) ==
    [status |-> 200, json |-> TRUE, error |-> "", detail |-> NoDetail,
     body |-> body, via |-> via]

\* The answer of the framework's default error handler (an HTML page).
HtmlErrorResponse ==
    [status |-> 500, json |-> FALSE, error |-> "Internal Server Error",
     detail |-> NoDetail, body |-> NoValue, via |-> 0]

NoResponse ==
    [status |-> 0, json |-> FALSE, error |-> "", detail |-> NoDetail,
     body |-> NoValue, via |-> 0]

(***************************************************************************)
(* /api/analyze: from the reply text to the response                       *)
(***************************************************************************)
\* new Date().toISOString(): one symbol that no reply text can hold.
IsoNow == <<"NOW">>

AnalyzedAtKey == <<"a","n","a","l","y","z","e","d","A","t">>

\* analysis.analyzedAt = <timestamp>, then the value as res.json serialises
\* it: an object gains (or has replaced) the member; an array takes the
\* property but JSON.stringify writes only its elements; the assignment to
\* a number, string or boolean is dropped (the file is not in strict mode).
Stamp(analysis) ==
    IF analysis.k = "object"
    THEN LET m == SetMember(analysis.keys, analysis.kids, AnalyzedAtKey,
                            JValue("string", IsoNow, <<>>, <<>>))
         IN  JValue("object", <<>>, m.keys, m.kids)
    ELSE analysis

\* Phase 1: JSON.parse of the fence-stripped text.
Phase1(content) == JSONparse(StripFences(content))

\* Phase 2, in the catch of phase 1: JSON.parse of the greedy brace match of
\* the original text.
Phase2(content) ==
    IF BraceMatch(content).found THEN JSONparse(BraceMatch(content).text) ELSE ParseFail

\* Lines 273-293: the analysis the two phases give for a reply text, and the
\* phase (via) that gave it; ok is FALSE where the handler answers 500.
Extract(content) ==
    LET p1 == Phase1(content)
        p2 == Phase2(content)
    IN  IF p1.ok THEN [ok |-> TRUE, v |-> p1.v, via |-> 1]
        ELSE IF p2.ok THEN [ok |-> TRUE, v |-> p2.v, via |-> 2]
        ELSE [ok |-> FALSE, v |-> NoValue, via |-> 0]

\* Lines 273-298, for a reply whose content is text.
AnalyzeText(content) ==
    LET p1 == Phase1(content)
        p2 == Phase2(content)
        analysis == IF p1.ok THEN p1.v ELSE p2.v
        via == IF p1.ok THEN 1 ELSE 2
    IN  IF ~p1.ok /\ ~BraceMatch(content).found
        THEN ErrorResponse(500, "Invalid response format", NoDetail)
        ELSE IF ~p1.ok /\ ~p2.ok
        THEN ErrorResponse(500, "Failed to parse analysis", NoDetail)
        ELSE IF analysis.k = "null"
        \* null.analyzedAt = ... throws TypeError, caught at line 300
        THEN ErrorResponse(500, "Server error", Detail(<<"TypeError">>))
        ELSE OkResponse(Stamp(analysis), via)

\* Lines 271-298. content.replace and, in the catch, content.match throw
\* TypeError when content is not a string; the outer catch answers.
AnalyzeContent(content) ==
    IF content.t # "string"
    THEN ErrorResponse(500, "Server error", Detail(<<"TypeError">>))
    ELSE AnalyzeText(content.s)

(***************************************************************************)
(* /api/chat: from the reply text to the response                          *)
(***************************************************************************)
\* Lines 396-402: assistantMessage.trim() throws when content is no string.
ChatContent(content) ==
    IF content.t # "string"
    THEN ErrorResponse(500, "Server error", NoDetail)
    ELSE OkResponse(JValue("object", <<>>, <<<<"m","e","s","s","a","g","e">>>>,
                           <<JValue("string", Trim(content.s), <<>>, <<>>)>>), 0)


(***************************************************************************)
(* Request bodies                                                          *)
(*                                                                         *)
(* req.body as express.json() leaves it: the fields the two handlers read. *)
(* A list (chatHistory, reviews.pros, reviews.cons) is a record: t its     *)
(* type, items its entries (for a string, its characters); an entry has    *)
(* obj FALSE when it is null.                                              *)
(***************************************************************************)
NoList == [t |-> "undefined", items |-> <<>>]

ArrayOf(items) == [t |-> "array", items |-> items]

\* An entry of chatHistory: { role, content }.
Turn(role, content) == [obj |-> TRUE, role |-> role, content |-> content]

NullTurn == [obj |-> FALSE, role |-> JsUndefined, content |-> JsUndefined]

\* An entry of reviews.pros or reviews.cons: { point }.
Point(point) == [obj |-> TRUE, point |-> point]

NullPoint == [obj |-> FALSE, point |-> JsUndefined]

\* productContext: product is the truth value of productContext.product.
NoContext ==
    [t |-> "undefined", product |-> FALSE, name |-> JsUndefined,
     currentPrice |-> JsUndefined, sentiment |-> JsUndefined, worth |-> JsUndefined,
     verdict |-> JsUndefined, pros |-> NoList, cons |-> NoList]

EmptyBody ==
    [productName |-> JsUndefined, detectedPrice |-> JsUndefined,
     detectedRating |-> JsUndefined, detectedReviewCount |-> JsUndefined,
     isBundle |-> JsUndefined, message |-> JsUndefined,
     productContext |-> NoContext, chatHistory |-> NoList]

(***************************************************************************)
(* The synchronous part of the handlers, up to the fetch call              *)
(***************************************************************************)
NameMax == 200
PriceMax == 20
RatingMax == 10
ReviewsMax == 20
MessageMax == 500
HistoryWindow == 6
PointsShown == 3

\* A piece of request text placed in the prompt: the field it comes from,
\* the label the template puts before it, the text as embedded.
Embed(field, label, text) == [field |-> field, label |-> label, text |-> text]

\* What the synchronous part ends in: a response (pc "done"), the fetch call
\* with the request text it embeds (pc "awaitFetch"), or an exception that no
\* try block encloses (pc "threw").
StartDone(resp) == [pc |-> "done", resp |-> resp, embeds |-> <<>>]

StartFetch(embeds) == [pc |-> "awaitFetch", resp |-> NoResponse, embeds |-> embeds]

StartThrew == [pc |-> "threw", resp |-> NoResponse, embeds |-> <<>>]

\* if (field) pageContext += `...${sanitizeInput(String(field), max)}...`
ContextEmbed(field, v, max) ==
    IF Truthy(v) THEN <<Embed(field, "", sanitizeInput(JsString(v.s), max))>> ELSE <<>>

\* String(v) of a truthy v throws (lines 66-68).
StringThrows(v) == Truthy(v) /\ v.noprim

\* Lines 47-262 of /api/analyze.
AnalyzeStart(body, key) ==
    LET cleanProductName == sanitizeInput(body.productName, NameMax)
    IN  IF cleanProductName = <<>>
        THEN StartDone(ErrorResponse(400, "Valid product name is required", NoDetail))
        ELSE IF ~key
        THEN StartDone(ErrorResponse(500, "API key not configured", NoDetail))
        ELSE IF \/ StringThrows(body.detectedPrice)
                \/ StringThrows(body.detectedRating)
                \/ StringThrows(body.detectedReviewCount)
        THEN StartThrew
        ELSE StartFetch(<<Embed("productName", "", cleanProductName)>>
                        \o ContextEmbed("detectedPrice", body.detectedPrice, PriceMax)
                        \o ContextEmbed("detectedRating", body.detectedRating, RatingMax)
                        \o ContextEmbed("detectedReviewCount", body.detectedReviewCount,
                                        ReviewsMax))

\* array.slice(0, n)
SliceFirst(items, n) == SubSeq(items, 1, IF Len(items) < n THEN Len(items) ELSE n)

\* slice that keeps every entry.
SliceAll(items, n) == items

\* array.slice(-n)
SliceLast(items, n) ==
    SubSeq(items, IF Len(items) < n THEN 1 ELSE Len(items) - n + 1, Len(items))

\* list?.slice(0, 3).map(r => r.point) throws: slice or map is missing on a
\* value that is no array, or r is null.
PointsThrow(list) ==
    \/ list.t \notin {"undefined", "array"}
    \/ /\ list.t = "array"
       /\ \E i \in DOMAIN SliceFirst(list.items, PointsShown) : ~list.items[i].obj

\* `${value || 'default'}` and '$' + value throw on a truthy value without a
\* primitive conversion.
ProductInfoThrows(ctx) ==
    /\ ctx.t = "object" /\ ctx.product
    /\ \/ StringThrows(ctx.name) \/ StringThrows(ctx.currentPrice)
       \/ StringThrows(ctx.sentiment) \/ StringThrows(ctx.worth)
       \/ StringThrows(ctx.verdict)
       \/ PointsThrow(ctx.pros) \/ PointsThrow(ctx.cons)

ValueEmbed(label, v) ==
    IF Truthy(v) THEN <<Embed("productContext", label, v.s)>> ELSE <<>>

\* The points of one list as joined into the text; join writes nothing for
\* an undefined or null element.
PointEmbeds(label, list) ==
    LET shown == SliceFirst(list.items, PointsShown)
    IN  IF list.t # "array" THEN <<>>
        ELSE [i \in DOMAIN shown |->
                 Embed("productContext", label,
                       IF shown[i].point.t \in {"undefined", "null"}
                       THEN <<>> ELSE shown[i].point.s)]

\* Lines 323-336: the request text that productInfo carries.
ProductInfo(ctx) ==
    IF ~(ctx.t = "object" /\ ctx.product) THEN <<>>
    ELSE ValueEmbed("Product", ctx.name)
         \o ValueEmbed("Current Price", ctx.currentPrice)
         \o ValueEmbed("Sentiment Score", ctx.sentiment)
         \o ValueEmbed("Worth Score", ctx.worth)
         \o ValueEmbed("Verdict", ctx.verdict)
         \o PointEmbeds("Key Pros", ctx.pros)
         \o PointEmbeds("Key Cons", ctx.cons)

\* chatHistory && chatHistory.length > 0
HasHistory(h) == h.t \in {"array", "string"} /\ Len(h.items) > 0

\* Lines 340-345 throw: a string has slice but its result has no map; msg is
\* null; msg.content has no primitive conversion.
HistoryThrows(h) ==
    /\ HasHistory(h)
    /\ \/ h.t = "string"
       \/ \E i \in DOMAIN SliceLast(h.items, HistoryWindow) :
             LET msg == SliceLast(h.items, HistoryWindow)[i]
             IN  ~msg.obj \/ msg.content.noprim

\* msg.role === 'user' ? 'User' : 'Assistant'
RoleLabel(role) ==
    IF role.t = "string" /\ role.s = <<"u","s","e","r">> THEN "User" ELSE "Assistant"

\* Lines 339-345: historyContext, one entry per line.
HistoryContext(h) ==
    IF ~HasHistory(h) \/ h.t # "array" THEN <<>>
    ELSE LET recentHistory == SliceLast(h.items, HistoryWindow)
         IN  [i \in DOMAIN recentHistory |->
                 Embed("chatHistory", RoleLabel(recentHistory[i].role),
                       recentHistory[i].content.s)]

\* Lines 308-387 of /api/chat.
ChatStart(body, key) ==
    IF ~Truthy(body.message)
    THEN StartDone(ErrorResponse(400, "Message is required", NoDetail))
    ELSE IF ~key
    THEN StartDone(ErrorResponse(500, "API key not configured", NoDetail))
    ELSE IF ProductInfoThrows(body.productContext) \/ HistoryThrows(body.chatHistory)
    THEN StartThrew
    ELSE StartFetch(ProductInfo(body.productContext)
                    \o HistoryContext(body.chatHistory)
                    \o <<Embed("message", "User question",
                               sanitizeInput(body.message, MessageMax))>>)


(***************************************************************************)
(* Inputs                                                                  *)
(***************************************************************************)
\* All texts made of at most n pieces.
RECURSIVE TextsOf(_, _)
TextsOf(pieces, n) ==
    IF n = 0 THEN {<<>>}
    ELSE LET shorter == TextsOf(pieces, n - 1)
         IN  shorter \cup {t \o p : t \in shorter, p \in pieces}

\* n copies of the character c.
Repeat(c, n) == [i \in 1..n |-> c]

TxtTv == <<"t","v">>
TxtIgnore == <<"i","g","n","o","r","e">>
TxtHi == <<"h","i">>
TxtUser == <<"u","s","e","r">>
TxtAssistant == <<"a","s","s","i","s","t","a","n","t">>

JsTrue == JsValue("boolean", <<"t","r","u","e">>)

\* Request bodies of /api/analyze: productName absent, not a string, a
\* denylisted word only, plain, with removed characters and a denylisted
\* word, longer than the cap; the detected fields absent, plain, with
\* removed characters, longer than their caps, without primitive conversion.
AnalyzeBodies ==
    {[EmptyBody EXCEPT !.productName = n] :
        n \in {JsUndefined, JsNumber(<<"4","2">>), JsString(TxtIgnore), JsString(TxtTv),
               JsString(<<"<","t","v",">"," ","I","g","n","o","r","e"," ","{","x","}">>),
               JsString(Repeat("a", NameMax) \o <<" ">> \o TxtIgnore)}}
    \cup
    {[EmptyBody EXCEPT !.productName = JsString(TxtTv), !.detectedPrice = v,
                       !.detectedRating = w, !.isBundle = JsTrue] :
        v \in {JsNumber(<<"9">>), JsString(<<"$","9"," ","[","f","o","r","g","e","t","]"," ",BT,"n","o","w",BT>>)},
        w \in {JsUndefined, JsString(<<"4",".","5"," ","o","f"," ","5"," ","<","s","t","a","r","s",">">>)}}
    \cup
    {[EmptyBody EXCEPT !.productName = JsString(TxtTv), !.detectedReviewCount = v] :
        v \in {JsString(<<"1",",","0","2","4"," ","i","n","s","t","e","a","d">>), JsObject, JsNoPrimitive}}
    \cup
    {[EmptyBody EXCEPT !.detectedPrice = JsNoPrimitive]}

GoodContext ==
    [NoContext EXCEPT !.t = "object", !.product = TRUE, !.name = JsString(TxtTv),
                      !.currentPrice = JsNumber(<<"9">>),
                      !.pros = ArrayOf(<<Point(JsString(<<"s","h","a","r","p">>))>>)]

\* Request bodies of /api/chat: message absent, not a string, a denylisted
\* word only, plain; chatHistory absent, empty, with entries, longer than the
\* window, with a null entry, a string; productContext absent, well formed,
\* with pros that is no array or holds null.
ChatBodies ==
    {[EmptyBody EXCEPT !.message = m] :
        m \in {JsUndefined, JsNumber(<<"4","2">>), JsString(TxtIgnore), JsString(TxtHi),
               JsString(<<"h","i"," ","<","b",">"," ","p","r","e","t","e","n","d">>)}}
    \cup
    {[EmptyBody EXCEPT !.message = JsString(TxtHi), !.chatHistory = h] :
        h \in {ArrayOf(<<>>),
               ArrayOf(<<Turn(JsString(TxtUser), JsString(TxtHi)),
                         Turn(JsString(TxtAssistant), JsString(<<"i","g","n","o","r","e"," ","{","a","l","l","}">>))>>),
               ArrayOf(<<NullTurn>>),
               [t |-> "string", items |-> TxtHi]}}
    \cup
    {[EmptyBody EXCEPT !.message = JsString(TxtHi), !.productContext = c] :
        c \in {GoodContext,
               [GoodContext EXCEPT !.product = FALSE],
               [GoodContext EXCEPT !.pros = [t |-> "string", items |-> TxtHi]],
               [GoodContext EXCEPT !.cons = ArrayOf(<<NullPoint>>)]}}
    \cup
    {[EmptyBody EXCEPT !.chatHistory = ArrayOf(<<NullTurn>>)]}

Requests ==
    {[ep |-> "analyze", body |-> b] : b \in AnalyzeBodies}
    \cup {[ep |-> "chat", body |-> b] : b \in ChatBodies}

\* Bodies of a non-success upstream response.
ErrorBodies == {<<"q","u","o","t","a">>, <<>>}

TxtEmptyObject == <<"{","}">>

\* What response.json() resolves with: data without choices[0].message, and
\* data whose content is not a string or is one of a few reply texts.
Datas ==
    {[shape |-> FALSE, content |-> JsUndefined]}
    \cup {[shape |-> TRUE, content |-> c] :
            c \in {JsUndefined, JsNull}
                  \cup {JsString(t) : t \in
                          {TxtEmptyObject, <<BT,BT,BT,"j","s","o","n","\n","{","\"","a","\"",":","1","}","\n",BT,BT,BT>>,
                           <<"S","u","r","e",":"," ","{","}"," ","o","k">>, <<"1">>, <<"[","1","]">>,
                           <<"n","u","l","l">>, <<" ","h","i"," ">>, <<"{","}"," ","o","r"," ","}">>}}}

\* The one request of the extraction runs.
TvRequest == [ep |-> "analyze", body |-> [EmptyBody EXCEPT !.productName = JsString(TxtTv)]]

\* The longest chatHistory of the history runs.
MaxHistory == 7

\* The entries histories are made of: a user turn and an assistant turn.
HistoryTurns ==
    {Turn(JsString(TxtUser), JsString(<<"a">>)),
     Turn(JsString(TxtAssistant), JsString(<<"b">>))}

RECURSIVE HistoriesOf(_)
HistoriesOf(n) ==
    IF n = 0 THEN {<<>>}
    ELSE LET shorter == HistoriesOf(n - 1)
         IN  shorter \cup {Append(h, e) : h \in shorter, e \in HistoryTurns}

\* Every history of at most MaxHistory turns; a lone null entry; and a null
\* entry ahead of a full window of turns, one place outside the window.
Histories ==
    HistoriesOf(MaxHistory)
    \cup {<<NullTurn>>}
    \cup {<<NullTurn>> \o h : h \in {w \in HistoriesOf(HistoryWindow) : Len(w) = HistoryWindow}}

\* /api/chat requests with no chatHistory and with each of these histories.
HistoryRequests ==
    {[ep |-> "chat", body |-> [EmptyBody EXCEPT !.message = JsString(TxtHi), !.chatHistory = h]] :
        h \in {NoList} \cup {ArrayOf(items) : items \in Histories}}

(***************************************************************************)
(* The continuation of the handlers after the fetch call                   *)
(***************************************************************************)
\* The catch blocks (lines 300-303 and 404-407): /api/analyze adds
\* error.message, /api/chat does not.
CatchResponse(ep, message) ==
    IF ep = "analyze"
    THEN ErrorResponse(500, "Server error", Detail(message))
    ELSE ErrorResponse(500, "Server error", NoDetail)

\* if (!response.ok) (lines 264-268 and 389-393): errorData is the body of
\* the upstream response.
UpstreamErrorResponse(ep, errorData) ==
    IF ep = "analyze"
    THEN ErrorResponse(500, "Analysis failed", Detail(errorData))
    ELSE ErrorResponse(500, "Failed to process question", NoDetail)

\* data.choices[0].message.content throws TypeError when data has not that
\* shape; otherwise the content goes to the endpoint's own processing.
DataResponse(ep, data) ==
    IF ~data.shape THEN CatchResponse(ep, <<"TypeError">>)
    ELSE IF ep = "analyze" THEN AnalyzeContent(data.content)
    ELSE ChatContent(data.content)

(***************************************************************************)
(* State                                                                   *)
(***************************************************************************)
VARIABLES
    apiKey,     \* process.env.PERPLEXITY_API_KEY is set
    runtime,    \* what this build does with an exception that escapes an
                \* async handler: "hang" (the rejection is dropped, no
                \* response), "crash" (the process exits on the unhandled
                \* rejection), "forward" (the framework's error handler
                \* answers 500 with an HTML page)
    alive,      \* the server process is running
    reqs,       \* the requests, by connection slot
    san,        \* one call of sanitizeInput: its arguments and its result
    ext         \* one reply text taken through the extraction, twice

vars == <<apiKey, runtime, alive, reqs, san, ext>>

\* What the completion API did for a request, as far as it got.
NoUpstream ==
    [fetch |-> "none", read |-> "none", errorData |-> <<>>,
     shape |-> FALSE, content |-> JsUndefined]

\* A slot with no request. ep is the endpoint, key the handler's local
\* PERPLEXITY_API_KEY (as a truth value), embeds the request text in the
\* prompt of the fetch call, calls the number of fetch calls the handler
\* made, sent the number of responses it sent.
Idle ==
    [pc |-> "idle", ep |-> "none", body |-> EmptyBody, key |-> FALSE,
     embeds |-> <<>>, calls |-> 0, sent |-> 0, upstream |-> NoUpstream,
     resp |-> NoResponse]

SanIdle == [input |-> JsUndefined, max |-> 0, out |-> <<>>, done |-> FALSE]

\* No extraction yet. first is the result for text, again the result for the
\* JSON text of first.
NoExtract == [ok |-> FALSE, v |-> NoValue, via |-> 0]

ExtIdle == [pc |-> "idle", text |-> <<>>, first |-> NoExtract, again |-> NoExtract]

Runtimes == {"hang", "crash", "forward"}

\* The handler of a request that sends resp and returns.
Respond(r, resp) == [r EXCEPT !.pc = "done", !.resp = resp, !.sent = r.sent + 1]

(***************************************************************************)
(* Actions                                                                 *)
(***************************************************************************)
\* ReadKey that takes the credential for present without reading it.
ReadKeyAssumed == TRUE

\* The handler's read of the credential (lines 55 and 314).
ReadKey == apiKey

\* The synchronous part of the handler of endpoint ep.
HandlerStart(ep, body, key) ==
    IF ep = "analyze" THEN AnalyzeStart(body, key) ELSE ChatStart(body, key)

\* HandlerStart for each request of the input sets and each truth value of
\* the credential, computed once.
Starts ==
    [q \in Requests \cup {TvRequest} |->
        [key \in BOOLEAN |-> HandlerStart(q.ep, q.body, key)]]

\* The synchronous part of the handler of request q, the credential being key.
StartOf(q, key) ==
    IF q \in DOMAIN Starts THEN Starts[q][key] ELSE HandlerStart(q.ep, q.body, key)

\* The slot of a request whose synchronous part ended in start. An exception
\* that escapes the handler leaves the request to the runtime.
Started(q, key, start) ==
    LET r == [Idle EXCEPT !.ep = q.ep, !.body = q.body,
                          \* the credential is read after the input check
                          !.key = key /\ start.resp.status # 400]
    IN  CASE start.pc = "done" -> Respond(r, start.resp)
          [] start.pc = "awaitFetch" ->
                [r EXCEPT !.pc = "awaitFetch", !.embeds = start.embeds, !.calls = 1,
                          !.upstream = [NoUpstream EXCEPT !.fetch = "pending"]]
          [] start.pc = "threw" /\ runtime = "forward" -> Respond(r, HtmlErrorResponse)
          [] OTHER -> [r EXCEPT !.pc = "hung"]

\* A request of the set requests arrives on slot s and its handler runs up
\* to the fetch call.
Receive(s, requests) ==
    /\ alive
    /\ reqs[s].pc \in {"idle", "done", "hung"}
    /\ \E q \in requests :
          LET key == ReadKey
              start == StartOf(q, key)
          IN  /\ reqs' = [reqs EXCEPT ![s] = Started(q, key, start)]
              /\ alive' = ~(start.pc = "threw" /\ runtime = "crash")
    /\ UNCHANGED <<apiKey, runtime, san, ext>>

\* await fetch(...) rejects (network failure): the catch block answers.
FetchRejects(s) ==
    /\ alive
    /\ reqs[s].pc = "awaitFetch"
    /\ reqs' = [reqs EXCEPT ![s] =
                  Respond([reqs[s] EXCEPT !.upstream.fetch = "rejected"],
                          CatchResponse(reqs[s].ep, <<"fetch failed">>))]
    /\ UNCHANGED <<apiKey, runtime, alive, san, ext>>

\* await fetch(...) resolves; the handler goes on to read the body.
FetchResolves(s, ok) ==
    /\ alive
    /\ reqs[s].pc = "awaitFetch"
    /\ reqs' = [reqs EXCEPT ![s] =
                  [reqs[s] EXCEPT !.pc = IF ok THEN "awaitJson" ELSE "awaitText",
                                  !.upstream.fetch = IF ok THEN "ok" ELSE "notok",
                                  !.upstream.read = "pending"]]
    /\ UNCHANGED <<apiKey, runtime, alive, san, ext>>

\* await response.text() or response.json() rejects.
ReadRejects(s) ==
    /\ alive
    /\ reqs[s].pc \in {"awaitText", "awaitJson"}
    /\ reqs' = [reqs EXCEPT ![s] =
                  Respond([reqs[s] EXCEPT !.upstream.read = "rejected"],
                          CatchResponse(reqs[s].ep, <<"read failed">>))]
    /\ UNCHANGED <<apiKey, runtime, alive, san, ext>>

\* await response.text() resolves with the upstream error body.
TextResolves(s, bodies) ==
    /\ alive
    /\ reqs[s].pc = "awaitText"
    /\ \E errorData \in bodies :
          reqs' = [reqs EXCEPT ![s] =
                     Respond([reqs[s] EXCEPT !.upstream.read = "done",
                                             !.upstream.errorData = errorData],
                             UpstreamErrorResponse(reqs[s].ep, errorData))]
    /\ UNCHANGED <<apiKey, runtime, alive, san, ext>>

\* await response.json() resolves with data; the handler runs to its end.
JsonResolves(s, datas) ==
    /\ alive
    /\ reqs[s].pc = "awaitJson"
    /\ \E data \in datas :
          reqs' = [reqs EXCEPT ![s] =
                     Respond([reqs[s] EXCEPT !.upstream.read = "done",
                                             !.upstream.shape = data.shape,
                                             !.upstream.content = data.content],
                             DataResponse(reqs[s].ep, data))]
    /\ UNCHANGED <<apiKey, runtime, alive, san, ext>>

\* The credential is set or unset in the process environment.
SetEnv ==
    /\ alive
    /\ apiKey' = ~apiKey
    /\ UNCHANGED <<runtime, alive, reqs, san, ext>>

\* One call of sanitizeInput.
Sanitize ==
    /\ ~san.done
    /\ san' = [san EXCEPT !.out = sanitizeInput(san.input, san.max), !.done = TRUE]
    /\ UNCHANGED <<apiKey, runtime, alive, reqs, ext>>

\* The extraction runs on the reply text.
ExtractReply ==
    /\ ext.pc = "text"
    /\ ext' = [ext EXCEPT !.pc = "first", !.first = Extract(ext.text)]
    /\ UNCHANGED <<apiKey, runtime, alive, reqs, san>>

\* The object the extraction gave is written as JSON text and the
\* extraction runs on that text.
ExtractAgain ==
    /\ ext.pc = "first"
    /\ ext.first.ok
    /\ ext.first.v.k = "object"
    /\ ext' = [ext EXCEPT !.pc = "again", !.again = Extract(Stringify(ext.first.v))]
    /\ UNCHANGED <<apiKey, runtime, alive, reqs, san>>


(***************************************************************************)
(* The server                                                              *)
(***************************************************************************)
Slots == {1}


Init ==
    /\ apiKey \in BOOLEAN
    /\ runtime \in Runtimes
    /\ alive = TRUE
    /\ reqs = [s \in Slots |-> Idle]
    /\ san = SanIdle
    /\ ext = ExtIdle

Next ==
    \/ \E s \in Slots : Receive(s, Requests)
    \/ \E s \in Slots : FetchRejects(s)
    \/ \E s \in Slots, ok \in BOOLEAN : FetchResolves(s, ok)
    \/ \E s \in Slots : ReadRejects(s)
    \/ \E s \in Slots : TextResolves(s, ErrorBodies)
    \/ \E s \in Slots : JsonResolves(s, Datas)
    \/ SetEnv

Spec == Init /\ [][Next]_vars


(***************************************************************************)
(* One /api/analyze request against every reply text of a bounded set      *)
(***************************************************************************)
MaxPieces == 4

\* The pieces reply texts are made of: fence markers, braces, brackets, a
\* number, prose, null, a member key, white space.
ReplyPieces ==
    {<<BT,BT,BT,"j","s","o","n","\n">>, Fence, <<"{">>, <<"}">>, <<"[">>, <<"]">>, <<"1">>,
     <<"x">>, <<"n","u","l","l">>, <<"\"","a","n","a","l","y","z","e","d","A","t","\"",":">>, <<" ">>}

ReplyTexts == TextsOf(ReplyPieces, MaxPieces)

ReplyDatas == {[shape |-> TRUE, content |-> JsString(t)] : t \in ReplyTexts}

InitExtract ==
    /\ apiKey = TRUE
    /\ runtime = "hang"
    /\ alive = TRUE
    /\ reqs = [s \in Slots |-> Idle]
    /\ san = SanIdle
    /\ ext = ExtIdle

NextExtract ==
    \/ \E s \in Slots : Receive(s, {TvRequest})
    \/ \E s \in Slots : FetchResolves(s, TRUE)
    \/ \E s \in Slots : JsonResolves(s, ReplyDatas)

SpecExtract == InitExtract /\ [][NextExtract]_vars

(***************************************************************************)
(* sanitizeInput against every input of a bounded set                      *)
(***************************************************************************)
SanMaxPieces == 3
SanMaxLength == 8

\* The pieces input texts are made of: two denylisted words (one in upper
\* case), the two halves of one, two removed characters, white space, a
\* letter, a hyphen.
SanPieces ==
    {TxtIgnore, <<"F","O","R","G","E","T">>, <<"i","g">>, <<"n","o","r","e">>,
     <<"<">>, <<"}">>, <<" ">>, <<"a">>, <<"-">>}

SanInputs ==
    {JsUndefined, JsNull, JsNumber(<<"4","2">>), JsObject}
    \cup {JsString(t) : t \in TextsOf(SanPieces, SanMaxPieces)}

\* The lengths: negative, zero, short enough to cut, and one the handlers use.
SanLengths == ((0 - 2)..SanMaxLength) \cup {NameMax}

InitSan ==
    /\ apiKey = TRUE
    /\ runtime = "hang"
    /\ alive = TRUE
    /\ reqs = [s \in Slots |-> Idle]
    /\ san \in {[SanIdle EXCEPT !.input = i, !.max = n] : i \in SanInputs, n \in SanLengths}
    /\ ext = ExtIdle

NextSan == Sanitize

SpecSan == InitSan /\ [][NextSan]_vars


(***************************************************************************)
(* /api/chat requests with every chatHistory of a bounded set              *)
(***************************************************************************)
\* The reply of the completion API in the history runs.
HistoryDatas == {[shape |-> TRUE, content |-> JsString(TxtHi)]}

InitHistory ==
    /\ apiKey = TRUE
    /\ runtime = "hang"
    /\ alive = TRUE
    /\ reqs = [s \in Slots |-> Idle]
    /\ san = SanIdle
    /\ ext = ExtIdle

NextHistory ==
    \/ \E s \in Slots : Receive(s, HistoryRequests)
    \/ \E s \in Slots : FetchResolves(s, TRUE)
    \/ \E s \in Slots : JsonResolves(s, HistoryDatas)

SpecHistory == InitHistory /\ [][NextHistory]_vars


(***************************************************************************)
(* Two requests in flight at once                                          *)
(***************************************************************************)
PairSlots == {1, 2}

\* The requests of the two-slot runs: one of each endpoint that reaches the
\* fetch call, one answered 400, one whose handler throws ahead of the try.
PairRequests ==
    {TvRequest,
     [ep |-> "analyze", body |-> EmptyBody],
     [ep |-> "chat", body |-> [EmptyBody EXCEPT !.message = JsString(TxtHi)]],
     [ep |-> "chat", body |-> [EmptyBody EXCEPT !.message = JsString(TxtHi),
                                                !.chatHistory = ArrayOf(<<NullTurn>>)]]}

PairErrorBodies == {<<"q","u","o","t","a">>}

PairDatas ==
    {[shape |-> TRUE, content |-> JsString(t)] : t \in {TxtEmptyObject, TxtHi}}

InitPair ==
    /\ apiKey \in BOOLEAN
    /\ runtime \in Runtimes
    /\ alive = TRUE
    /\ reqs = [s \in PairSlots |-> Idle]
    /\ san = SanIdle
    /\ ext = ExtIdle

NextPair ==
    \/ \E s \in PairSlots : Receive(s, PairRequests)
    \/ \E s \in PairSlots : FetchRejects(s)
    \/ \E s \in PairSlots, ok \in BOOLEAN : FetchResolves(s, ok)
    \/ \E s \in PairSlots : ReadRejects(s)
    \/ \E s \in PairSlots : TextResolves(s, PairErrorBodies)
    \/ \E s \in PairSlots : JsonResolves(s, PairDatas)
    \/ SetEnv

SpecPair == InitPair /\ [][NextPair]_vars


(***************************************************************************)
(* The extraction, and the extraction of what it gave, on every reply text *)
(* of a bounded set                                                        *)
(***************************************************************************)
RoundMaxPieces == 4

\* The pieces: an object up to the opening quote of its one string value,
\* the closing quote and brace, the two fence markers, braces, prose, a
\* number, an escaped quote.
RoundPieces ==
    {<<"{","\"","a","\"",":","\"">>, <<"\"","}">>, Fence, FenceJson, <<"{">>, <<"}">>,
     <<"x">>, <<"1">>, <<"\\","\"">>}

RoundTexts == TextsOf(RoundPieces, RoundMaxPieces)

InitRound ==
    /\ apiKey = TRUE
    /\ runtime = "hang"
    /\ alive = TRUE
    /\ reqs = [s \in Slots |-> Idle]
    /\ san = SanIdle
    /\ ext \in {[ExtIdle EXCEPT !.pc = "text", !.text = t] : t \in RoundTexts}

NextRound ==
    \/ ExtractReply
    \/ ExtractAgain

SpecRound == InitRound /\ [][NextRound]_vars


(***************************************************************************)
(* Properties                                                              *)
(***************************************************************************)
\* The handler of the request on slot s has ended (with or without a response).
Ended(r) == r.pc \in {"done", "hung"}

\* The required text field of a request, after sanitization.
RequiredText(r) ==
    IF r.ep = "analyze" THEN sanitizeInput(r.body.productName, NameMax)
    ELSE sanitizeInput(r.body.message, MessageMax)

ConfigError == ErrorResponse(500, "API key not configured", NoDetail)

\* C1: every request whose handler has ended got exactly one response, with
\* status 200, 400 or 500 and a JSON body; none is left without a response.
C1_EveryRequestAnswered ==
    \A s \in DOMAIN reqs :
        Ended(reqs[s]) =>
            /\ reqs[s].pc = "done"
            /\ reqs[s].sent = 1
            /\ reqs[s].resp.status \in {200, 400, 500}
            /\ reqs[s].resp.json

\* C2: on both endpoints a request whose required text is missing or empty
\* after sanitization is answered 400.
C2_EmptyRequiredTextIs400 ==
    \A s \in DOMAIN reqs :
        (reqs[s].pc # "idle" /\ RequiredText(reqs[s]) = <<>>) =>
            (reqs[s].pc = "done" /\ reqs[s].resp.status = 400)

\* C3: a 200 response of /api/analyze always has a JSON object as its body
\* (a phase-1 parse that yields a primitive, null or an array is not
\* accepted as the result).
C3_OkBodyIsObject ==
    \A s \in DOMAIN reqs :
        (reqs[s].pc = "done" /\ reqs[s].ep = "analyze" /\ reqs[s].resp.status = 200) =>
            reqs[s].resp.body.k = "object"

\* The span from the first "{" to the last "}" of a text, read off the
\* positions of the braces.
OpenPositions(t) == {i \in DOMAIN t : t[i] = "{"}

ClosePositions(t) == {i \in DOMAIN t : t[i] = "}"}

HasOuterSpan(t) ==
    \E i \in OpenPositions(t) :
        /\ \A j \in OpenPositions(t) : i <= j
        /\ \E k \in ClosePositions(t) : i < k

OuterSpan(t) ==
    SubSeq(t, CHOOSE i \in OpenPositions(t) : \A j \in OpenPositions(t) : i <= j,
              CHOOSE k \in ClosePositions(t) : \A j \in ClosePositions(t) : j <= k)

\* The reply of the request on slot s reached the extraction as text, and
\* the parse of the fence-stripped text failed.
Phase1Failed(r) ==
    /\ r.pc = "done" /\ r.ep = "analyze"
    /\ r.upstream.read = "done" /\ r.upstream.shape
    /\ r.upstream.content.t = "string"
    /\ ~JSONparse(StripFences(r.upstream.content.s)).ok

\* C4: when the phase-1 parse fails, the span from the first "{" to the last
\* "}" of the original reply is parsed; without such a span, or when the
\* span does not parse, the answer is 500 without an analysis; otherwise it
\* is 200 with the parsed span, stamped.
C4_FallbackParsesOuterSpan ==
    \A s \in DOMAIN reqs :
        Phase1Failed(reqs[s]) =>
            LET t == reqs[s].upstream.content.s
            IN  IF HasOuterSpan(t) /\ JSONparse(OuterSpan(t)).ok
                THEN /\ reqs[s].resp.status = 200
                     /\ reqs[s].resp.via = 2
                     /\ reqs[s].resp.body = Stamp(JSONparse(OuterSpan(t)).v)
                ELSE /\ reqs[s].resp.status = 500
                     /\ reqs[s].resp.body = NoValue

\* C4 witness: the over-capture case, an object followed by prose and a
\* later "}", answered 500.
C4_OverCaptureAnswered500 ==
    /\ Phase1Failed(reqs[1])
    /\ reqs[1].upstream.content.s = <<"{", "}", "x", "}">>
    /\ reqs[1].resp.status = 500

\* The body carries the timestamp the handler wrote.
HasTimestamp(v) ==
    /\ v.k = "object"
    /\ \E i \in DOMAIN v.keys :
          v.keys[i] = AnalyzedAtKey /\ v.kids[i] = JValue("string", IsoNow, <<>>, <<>>)

\* C5: every 200 response of /api/analyze carries the timestamp written by
\* the handler, and no other response of it carries an analysis.
C5_OkBodyCarriesTimestamp ==
    \A s \in DOMAIN reqs :
        (reqs[s].pc = "done" /\ reqs[s].ep = "analyze") =>
            IF reqs[s].resp.status = 200
            THEN HasTimestamp(reqs[s].resp.body)
            ELSE reqs[s].resp.body = NoValue

\* The fields of free-text user input that C6 lists.
FreeTextFields ==
    {"productName", "detectedPrice", "detectedRating", "detectedReviewCount",
     "message", "chatHistory"}

\* A text holds none of the removed characters and no denylisted whole word.
IsSanitized(t) ==
    /\ \A i \in DOMAIN t : t[i] \notin DangerousChars
    /\ \A i \in DOMAIN t : ~InDenyMatch(t, i)

\* C6: the user text embedded in the prompt of a fetch call holds none of
\* the removed characters and none of the denylisted whole words.
C6_EmbeddedTextIsSanitized ==
    \A s \in DOMAIN reqs :
        \A i \in DOMAIN reqs[s].embeds :
            reqs[s].embeds[i].field \in FreeTextFields =>
                IsSanitized(reqs[s].embeds[i].text)

\* C7: a non-success upstream response is answered 500 with the upstream
\* error body in the envelope, on both endpoints.
C7_UpstreamBodySurfaced ==
    \A s \in DOMAIN reqs :
        (/\ reqs[s].pc = "done"
         /\ reqs[s].upstream.fetch = "notok"
         /\ reqs[s].upstream.read = "done") =>
            /\ reqs[s].resp.status = 500
            /\ reqs[s].resp.detail = Detail(reqs[s].upstream.errorData)

\* A request has just arrived on slot s.
Arrives(s) ==
    /\ reqs[s].pc \in {"idle", "done", "hung"}
    /\ reqs'[s] # reqs[s]

\* C8: the credential counts as it is when the request is handled: a
\* request with valid required input that arrives while it is absent is
\* answered 500 "API key not configured" without a fetch call and the
\* server stays up; one that arrives while it is present is not.
C8_CredentialReadPerRequest ==
    [][\A s \in DOMAIN reqs :
          (Arrives(s) /\ RequiredText(reqs'[s]) # <<>>) =>
              IF apiKey
              THEN reqs'[s].key /\ reqs'[s].resp # ConfigError
              ELSE /\ reqs'[s].pc = "done"
                   /\ reqs'[s].resp = ConfigError
                   /\ reqs'[s].sent = 1
                   /\ reqs'[s].calls = 0
                   /\ alive']_vars

\* C8 witness: a request with valid input was answered with the
\* configuration error, the credential has since been set, the server is up.
C8_ConfigErrorThenCredentialSet ==
    /\ reqs[1].pc = "done"
    /\ RequiredText(reqs[1]) # <<>>
    /\ reqs[1].resp = ConfigError
    /\ apiKey
    /\ alive

\* C9: a request makes no fetch call when it is rejected for missing input
\* or missing credential, and exactly one otherwise.
C9_OneCallUnlessRejected ==
    \A s \in DOMAIN reqs :
        /\ reqs[s].calls <= 1
        /\ Ended(reqs[s]) =>
              reqs[s].calls =
                 IF reqs[s].resp.status = 400 \/ reqs[s].resp = ConfigError THEN 0 ELSE 1

\* C10 as stated: the result is never longer than maxLength, whatever its sign.
C10_LengthAtMostMaxLength == san.done => Len(san.out) <= san.max

\* C10 amended: the result is never longer than maxLength when maxLength is
\* 0 or more, and is empty when maxLength is negative.
C10_LengthAtMostCap ==
    san.done => Len(san.out) <= (IF san.max < 0 THEN 0 ELSE san.max)

\* C10 witness: a text longer than a positive maxLength, cut to exactly it.
C10_CapReached ==
    /\ san.done
    /\ san.max > 0
    /\ san.input.t = "string" /\ Len(san.input.s) > san.max
    /\ Len(san.out) = san.max

\* C11: the result of sanitizeInput holds none of the removed characters, no
\* denylisted word standing as a whole word (in any letter case, however it
\* came to stand there), and no white space at either end.
C11_OutputIsClean ==
    san.done =>
        /\ IsSanitized(san.out)
        /\ san.out # <<>> => ~IsSpace(san.out[1]) /\ ~IsSpace(san.out[Len(san.out)])

\* C11 witness: a whole input held a word, a removed character and outer
\* white space, so each filter had something to delete.
C11_AllFiltersActed ==
    /\ san.done
    /\ san.input.t = "string"
    /\ san.max >= Len(san.input.s)
    /\ \E i \in DOMAIN san.input.s : InDenyMatch(san.input.s, i)
    /\ \E i \in DOMAIN san.input.s : san.input.s[i] \in DangerousChars
    /\ IsSpace(san.input.s[Len(san.input.s)])

\* A denylisted word split by a listed character.
TxtSplitWord == <<"i","g","<","n","o","r","e">>

\* C12: sanitizeInput gives the empty text for anything but a non-empty
\* string, and for a string the first maxLength characters with the listed
\* characters deleted, then the denylisted words deleted, then trimmed; a
\* word cut by the cap stays, a word split by a listed character goes.
C12_ChainInOrder ==
    san.done =>
        /\ san.input.t # "string" => san.out = <<>>
        /\ san.input.t = "string" =>
              san.out =
                 Trim(RemoveWords(RemoveChars(Substring0(san.input.s, san.max),
                                              DangerousChars)))
        /\ (san.input = JsString(TxtIgnore) /\ san.max \in 1..(Len(TxtIgnore) - 1)) =>
              san.out = SubSeq(TxtIgnore, 1, san.max)
        /\ (san.input = JsString(TxtSplitWord) /\ san.max >= Len(TxtSplitWord)) =>
              san.out = <<>>

\* C12 witness: the split word was sanitized whole and nothing is left.
C12_SplitWordRemoved ==
    /\ san.done
    /\ san.input = JsString(TxtSplitWord)
    /\ san.max = SanMaxLength
    /\ san.out = <<>>

\* C13: the object the extraction gave, written as JSON text and extracted
\* again, comes back identical, by phase 1.
C13_RoundTripIdentical ==
    ext.pc = "again" =>
        /\ ext.again.ok
        /\ ext.again.via = 1
        /\ ext.again.v = ext.first.v

\* The chatHistory entries in the prompt of the request r.
HistoryInPrompt(r) == SelectSeq(r.embeds, LAMBDA e : e.field = "chatHistory")

\* The number of chatHistory entries C14 says the prompt holds.
WindowOf(h) ==
    IF h.t # "array" THEN 0
    ELSE IF Len(h.items) < HistoryWindow THEN Len(h.items) ELSE HistoryWindow

\* C14: the prompt of a /api/chat fetch call holds the last min(6, length)
\* entries of chatHistory, in their order, and nothing of an earlier entry;
\* it holds no history when chatHistory is absent or empty.
C14_PromptHoldsLastSix ==
    \A s \in DOMAIN reqs :
        (reqs[s].ep = "chat" /\ reqs[s].calls = 1) =>
            LET h == reqs[s].body.chatHistory
                hist == HistoryInPrompt(reqs[s])
                skipped == Len(h.items) - WindowOf(h)
            IN  /\ Len(hist) = WindowOf(h)
                /\ \A i \in DOMAIN hist :
                      /\ hist[i].label = RoleLabel(h.items[skipped + i].role)
                      /\ hist[i].text = h.items[skipped + i].content.s

\* C14 witness: a chatHistory longer than the window went into a prompt.
C14_LongHistoryCut ==
    \E s \in DOMAIN reqs :
        /\ reqs[s].ep = "chat" /\ reqs[s].calls = 1
        /\ Len(reqs[s].body.chatHistory.items) > HistoryWindow
        /\ Len(HistoryInPrompt(reqs[s])) = HistoryWindow
        /\ ~reqs[s].body.chatHistory.items[1].obj

\* The request r is suspended at its outbound call or at the read of the reply.
InFlight(r) == r.pc \in {"awaitFetch", "awaitText", "awaitJson"}

\* The response of a request handled with no other request about, from its
\* body, the credential its handler read and the upstream reply to its call.
AloneResponse(r) ==
    LET start == HandlerStart(r.ep, r.body, r.key)
        up == r.upstream
    IN  CASE start.pc = "done" -> start.resp
          [] start.pc = "threw" ->
                IF runtime = "forward" THEN HtmlErrorResponse ELSE NoResponse
          [] up.fetch = "rejected" -> CatchResponse(r.ep, <<"fetch failed">>)
          [] up.read = "rejected" -> CatchResponse(r.ep, <<"read failed">>)
          [] up.fetch = "notok" -> UpstreamErrorResponse(r.ep, up.errorData)
          [] OTHER -> DataResponse(r.ep, [shape |-> up.shape, content |-> up.content])

\* C15: whatever the other requests do, a request that has ended has the
\* response it would have alone, and a request in flight is still being
\* handled, so that the reply to its call will be answered as it would alone.
C15_RequestsIndependent ==
    \A s \in DOMAIN reqs :
        /\ Ended(reqs[s]) => reqs[s].resp = AloneResponse(reqs[s])
        /\ InFlight(reqs[s]) => alive

=============================================================================
